---- MODULE Spec2Model ----
(***************************************************************************)
(* A model of the test-automation agent: the repository scanner           *)
(* (agent/scanner.py), the template test generator                        *)
(* (agent/template_generator.py), the orchestrator's change detection and *)
(* test generation (agent/orchestrator.py) and the local file watcher     *)
(* (agent/watcher.py).                                                     *)
(*                                                                         *)
(* Identifiers (operation names, argument names) are sequences of         *)
(* one-character strings, so that the character-level conversions of the  *)
(* code (upper, lower, replace, lstrip) are computed and not assumed.     *)
(* Other text (defaults, descriptions, script source) is opaque.          *)
(* An Optional[str] is a sequence of length 0 (None) or 1 (the string).   *)
(***************************************************************************)
EXTENDS Integers, Sequences, FiniteSets, TLC

VARIABLES
    operation_info,   \* the dict last passed to TemplateGenerator.generate
    rendered,         \* what that call returned
    prev_info,        \* the dict passed to the call before it
    prev_rendered,    \* what that earlier call returned
    fs,               \* the files under the repository directory
    repo_path,        \* RepoScanner.repo_path
    operations,       \* the dict object RepoScanner.operations
    scan_results,     \* which dict object TestAutomationAgent.scan_results names
    scans,            \* how many times scan() has been called
    call,             \* the latest call, its argument and its outcome
    generated_tests,  \* TestAutomationAgent.generated_tests
    output_dir,       \* the files under TestAutomationAgent.output_dir
    now,              \* time.time()
    _last_event_time, \* OperationChangeHandler._last_event_time
    _previous_scan,   \* OperationChangeHandler._previous_scan
    events,           \* file system events the observer has not dispatched yet
    changes,          \* how many times the watched tree has been written
    remote_head,      \* the commit the remote's HEAD names: its SHA and its tree
    last_remote_sha,  \* watch_repo's last_remote_sha
    prev_scan,        \* watch_repo's prev_scan
    poller            \* watch_repo's polling loop: "off", "polling", "stopped"

gen_vars == <<operation_info, rendered, prev_info, prev_rendered>>

scan_vars == <<fs, repo_path, operations, scan_results, scans, call>>

out_vars == <<generated_tests, output_dir>>

watch_vars == <<now, _last_event_time, _previous_scan, events, changes>>

poll_vars == <<remote_head, last_remote_sha, prev_scan, poller>>

vars == <<operation_info, rendered, prev_info, prev_rendered,
          fs, repo_path, operations, scan_results, scans, call,
          generated_tests, output_dir,
          now, _last_event_time, _previous_scan, events, changes,
          remote_head, last_remote_sha, prev_scan, poller>>

\* no remote: the agent was given a local directory
NoCommit == [sha |-> 0, tree |-> <<>>]

-----------------------------------------------------------------------------
(* Bounds *)

MaxArgs == 2

MaxScans == 2

\* file changes the watcher is sent after its initial run
MaxChanges == 2

\* undispatched events
MaxPending == 1

\* seconds the clock advances past its start
MaxTime == 2

-----------------------------------------------------------------------------
(* Python values *)

None == <<>>

Some(s) == <<s>>

NotCalled == [called |-> FALSE]

-----------------------------------------------------------------------------
(* Character-level string functions *)

LowerLetters ==
    <<"a","b","c","d","e","f","g","h","i","j","k","l","m",
      "n","o","p","q","r","s","t","u","v","w","x","y","z">>

UpperLetters ==
    <<"A","B","C","D","E","F","G","H","I","J","K","L","M",
      "N","O","P","Q","R","S","T","U","V","W","X","Y","Z">>

LowerChar(c) ==
    IF \E i \in 1..Len(UpperLetters) : UpperLetters[i] = c
    THEN LowerLetters[CHOOSE i \in 1..Len(UpperLetters) : UpperLetters[i] = c]
    ELSE c

UpperChar(c) ==
    IF \E i \in 1..Len(LowerLetters) : LowerLetters[i] = c
    THEN UpperLetters[CHOOSE i \in 1..Len(LowerLetters) : LowerLetters[i] = c]
    ELSE c

\* jinja2 filter `lower`
Lower(s) == [i \in 1..Len(s) |-> LowerChar(s[i])]

\* jinja2 filter `upper`
Upper(s) == [i \in 1..Len(s) |-> UpperChar(s[i])]

\* str.replace / jinja2 filter `replace` for one-character patterns
Replace(s, old, new) == [i \in 1..Len(s) |-> IF s[i] = old THEN new ELSE s[i]]

\* the text of an identifier
RECURSIVE Str(_)
Str(s) == IF s = <<>> THEN "" ELSE Head(s) \o Str(Tail(s))

RECURSIVE Flatten(_)
Flatten(ss) == IF ss = <<>> THEN <<>> ELSE Head(ss) \o Flatten(Tail(ss))

IsRequired(a) == a.required

IsOptional(a) == ~a.required

IsInt(a) == a.arg_type = "int"

-----------------------------------------------------------------------------
(* ROBOT_TEMPLATE: the rendered suite as its variables table and its      *)
(* sequence of test-case blocks.  A test case is its title line, its      *)
(* [Documentation], its [Tags] in order, the cells of its Run Process     *)
(* line and its assertion lines; `kind` names the template block that     *)
(* emitted it and `arg` the loop variable of that block, if any.          *)

FlagOf(name) == "--" \o Str(Replace(name, "_", "-"))

DefaultVarOf(name) == "${DEFAULT_" \o Str(Upper(name)) \o "}"

\* jinja2 `arg.default or 'test-value'`
DefaultOr(d) == IF d = None \/ d = Some("") THEN "test-value" ELSE d[1]

RunCells(op_name) == <<"Run Process", "${SERVICE_CONSOLE}", "run", Str(op_name)>>

\* {% for arg in required_args %}    --flag    ${DEFAULT_X}{% endfor %}
RequiredCells(required_args) ==
    Flatten([i \in 1..Len(required_args) |->
        <<FlagOf(required_args[i].name), DefaultVarOf(required_args[i].name)>>])

RcIsZero == <<"Should Be Equal As Integers", "${result.rc}", "0">>

RcIsNonZero == <<"Should Not Be Equal As Integers", "${result.rc}", "0">>

VariablesTable(args) ==
    <<<<"${SERVICE_CONSOLE}", "service-console">>, <<"${TIMEOUT}", "120">>>>
    \o [i \in 1..Len(args) |-> <<DefaultVarOf(args[i].name), DefaultOr(args[i].default)>>]

SmokeTest(op_name, required_args) ==
    [kind |-> "smoke", arg |-> None,
     title |-> Str(op_name) \o " Smoke Test",
     doc |-> "Verify " \o Str(op_name) \o " operation runs successfully with valid arguments",
     tags |-> <<"smoke", "positive", Str(Lower(op_name))>>,
     invocation |-> RunCells(op_name) \o RequiredCells(required_args) \o <<"--dry-run">>,
     asserts |-> <<RcIsZero, <<"Should Contain", "${result.stdout}", Str(op_name)>>>>]

DryRunTest(op_name, required_args) ==
    [kind |-> "dry_run", arg |-> None,
     title |-> Str(op_name) \o " With Dry Run Flag",
     doc |-> "Verify " \o Str(op_name) \o " operation works with --dry-run flag",
     tags |-> <<"positive", "dry_run", Str(Lower(op_name))>>,
     invocation |-> RunCells(op_name) \o RequiredCells(required_args) \o <<"--dry-run">>,
     asserts |-> <<RcIsZero, <<"Should Contain", "${result.stdout}", "DRY RUN">>>>]

TimeoutTest(op_name, required_args) ==
    [kind |-> "timeout", arg |-> None,
     title |-> Str(op_name) \o " With Custom Timeout",
     doc |-> "Verify " \o Str(op_name) \o " operation accepts custom timeout",
     tags |-> <<"positive", Str(Lower(op_name))>>,
     invocation |-> RunCells(op_name) \o RequiredCells(required_args)
                    \o <<"--timeout", "60", "--dry-run">>,
     asserts |-> <<RcIsZero>>]

OptionalArgTest(op_name, required_args, arg) ==
    [kind |-> "optional_arg", arg |-> Some(arg.name),
     title |-> Str(op_name) \o " With Optional Arg " \o Str(arg.name),
     doc |-> "Verify " \o Str(op_name) \o " works with optional argument " \o FlagOf(arg.name),
     tags |-> <<"positive", Str(Lower(op_name))>>,
     invocation |-> RunCells(op_name) \o RequiredCells(required_args)
                    \o <<FlagOf(arg.name), DefaultOr(arg.default), "--dry-run">>,
     asserts |-> <<RcIsZero>>]

\* the loop without its `if`: the argument under test is passed as well
OtherRequired_KeepsAll(required_args, arg) == required_args

\* {% for other in required_args if other.name != arg.name %}
OtherRequired(required_args, arg) ==
    SelectSeq(required_args, LAMBDA other : other.name # arg.name)

MissingRequiredTest(op_name, required_args, arg) ==
    [kind |-> "missing_required", arg |-> Some(arg.name),
     title |-> Str(op_name) \o " Fails Without Required Arg " \o Str(arg.name),
     doc |-> "Verify " \o Str(op_name) \o " fails when required argument "
             \o FlagOf(arg.name) \o " is missing",
     tags |-> <<"negative", Str(Lower(op_name))>>,
     invocation |-> RunCells(op_name) \o RequiredCells(OtherRequired(required_args, arg)),
     asserts |-> <<RcIsNonZero, <<"Should Contain", "${result.stderr}", "Error">>>>]

UnknownOperationTest(op_name) ==
    [kind |-> "unknown_operation", arg |-> None,
     title |-> Str(op_name) \o " Fails With Unknown Operation Name",
     doc |-> "Verify service-console rejects unknown operation names",
     tags |-> <<"negative", Str(Lower(op_name))>>,
     invocation |-> <<"Run Process", "${SERVICE_CONSOLE}", "run", "Invalid_Operation_XYZ">>,
     asserts |-> <<RcIsNonZero, <<"Should Contain", "${result.stderr}", "Unknown operation">>>>]

EmptyOperationTest(op_name) ==
    [kind |-> "empty_operation", arg |-> None,
     title |-> Str(op_name) \o " Fails With Empty Operation Name",
     doc |-> "Verify service-console handles empty operation name",
     tags |-> <<"negative", "edge_case", Str(Lower(op_name))>>,
     invocation |-> <<"Run Process", "${SERVICE_CONSOLE}", "run">>,
     asserts |-> <<RcIsNonZero>>]

EmptyValueTest(op_name, arg) ==
    [kind |-> "empty_value", arg |-> Some(arg.name),
     title |-> Str(op_name) \o " Fails With Empty Value For " \o Str(arg.name),
     doc |-> "Verify " \o Str(op_name) \o " rejects empty value for " \o FlagOf(arg.name),
     tags |-> <<"negative", "edge_case", Str(Lower(op_name))>>,
     invocation |-> RunCells(op_name) \o <<FlagOf(arg.name), "${EMPTY}">>,
     asserts |-> <<RcIsNonZero>>]

NonNumericTest(op_name, required_args, arg) ==
    [kind |-> "non_numeric", arg |-> Some(arg.name),
     title |-> Str(op_name) \o " Fails With Non Numeric " \o Str(arg.name),
     doc |-> "Verify " \o Str(op_name) \o " rejects non-numeric value for " \o FlagOf(arg.name),
     tags |-> <<"negative", Str(Lower(op_name))>>,
     invocation |-> RunCells(op_name) \o RequiredCells(required_args)
                    \o <<FlagOf(arg.name), "not_a_number">>,
     asserts |-> <<RcIsNonZero>>]

NegativeValueTest(op_name, required_args, arg) ==
    [kind |-> "negative_value", arg |-> Some(arg.name),
     title |-> Str(op_name) \o " Fails With Negative " \o Str(arg.name),
     doc |-> "Verify " \o Str(op_name) \o " rejects negative value for " \o FlagOf(arg.name),
     tags |-> <<"negative", "edge_case", Str(Lower(op_name))>>,
     invocation |-> RunCells(op_name) \o RequiredCells(required_args)
                    \o <<FlagOf(arg.name), "-1">>,
     asserts |-> <<RcIsNonZero>>]

SpecialCharsTest(op_name, arg) ==
    [kind |-> "special_chars", arg |-> Some(arg.name),
     title |-> Str(op_name) \o " With Special Characters In " \o Str(arg.name),
     doc |-> "Verify " \o Str(op_name) \o " handles special characters in " \o FlagOf(arg.name),
     tags |-> <<"edge_case", Str(Lower(op_name))>>,
     invocation |-> RunCells(op_name) \o <<FlagOf(arg.name), "t<euro>st!@#$%">>,
     asserts |-> <<<<"Should Be True", "${result.rc} >= 0">>>>]

\* the help block tagged with the operation name as written
HelpTest_TagNotLowered(op_name) ==
    [kind |-> "help", arg |-> None,
     title |-> Str(op_name) \o " Help Flag",
     doc |-> "Verify --help flag works for the run command",
     tags |-> <<"positive", Str(op_name)>>,
     invocation |-> <<"Run Process", "${SERVICE_CONSOLE}", "run", "--help">>,
     asserts |-> <<RcIsZero, <<"Should Contain", "${result.stdout}", Str(op_name)>>>>]

HelpTest(op_name) ==
    [kind |-> "help", arg |-> None,
     title |-> Str(op_name) \o " Help Flag",
     doc |-> "Verify --help flag works for the run command",
     tags |-> <<"positive", Str(Lower(op_name))>>,
     invocation |-> <<"Run Process", "${SERVICE_CONSOLE}", "run", "--help">>,
     asserts |-> <<RcIsZero, <<"Should Contain", "${result.stdout}", Str(op_name)>>>>]

\* the loop run over every argument instead of the optional ones
OptionalArgTests_OverAllArgs(op_name, required_args, optional_args) ==
    [i \in 1..Len(required_args \o optional_args) |->
        OptionalArgTest(op_name, required_args, (required_args \o optional_args)[i])]

\* {% for arg in optional_args %} ... {% endfor %}
OptionalArgTests(op_name, required_args, optional_args) ==
    [i \in 1..Len(optional_args) |-> OptionalArgTest(op_name, required_args, optional_args[i])]

\* {% for arg in required_args %} ... Fails Without Required Arg ... {% endfor %}
MissingRequiredTests(op_name, required_args) ==
    [i \in 1..Len(required_args) |-> MissingRequiredTest(op_name, required_args, required_args[i])]

\* {% for arg in required_args %} ... Fails With Empty Value For ... {% endfor %}
EmptyValueTests(op_name, required_args) ==
    [i \in 1..Len(required_args) |-> EmptyValueTest(op_name, required_args[i])]

\* the loop run over the required arguments instead of all arguments
NumericTests_RequiredOnly(op_name, args, required_args) ==
    Flatten([i \in 1..Len(SelectSeq(required_args, IsInt)) |->
        <<NonNumericTest(op_name, required_args, SelectSeq(required_args, IsInt)[i]),
          NegativeValueTest(op_name, required_args, SelectSeq(required_args, IsInt)[i])>>])

\* {% for arg in args if arg.arg_type == 'int' %} two blocks {% endfor %}
NumericTests(op_name, args, required_args) ==
    Flatten([i \in 1..Len(SelectSeq(args, IsInt)) |->
        <<NonNumericTest(op_name, required_args, SelectSeq(args, IsInt)[i]),
          NegativeValueTest(op_name, required_args, SelectSeq(args, IsInt)[i])>>])

\* {% for arg in required_args %} ... With Special Characters In ... {% endfor %}
SpecialCharsTests(op_name, required_args) ==
    [i \in 1..Len(required_args) |-> SpecialCharsTest(op_name, required_args[i])]

Render(op_name, args, required_args, optional_args) ==
    [documentation |-> "Test suite for " \o Str(op_name) \o " operation",
     variables |-> VariablesTable(args),
     tests |->
        <<SmokeTest(op_name, required_args),
          DryRunTest(op_name, required_args),
          TimeoutTest(op_name, required_args)>>
        \o OptionalArgTests(op_name, required_args, optional_args)
        \o MissingRequiredTests(op_name, required_args)
        \o <<UnknownOperationTest(op_name), EmptyOperationTest(op_name)>>
        \o EmptyValueTests(op_name, required_args)
        \o NumericTests(op_name, args, required_args)
        \o SpecialCharsTests(op_name, required_args)
        \o <<HelpTest(op_name)>>]

\* the smoke test documented by the operation's description when it has one
generate_DocFromDescription(info) ==
    LET r == Render(info.name, info.args,
                    SelectSeq(info.args, IsRequired), SelectSeq(info.args, IsOptional))
    IN  [r EXCEPT !.tests[1].doc = IF info.description # "" THEN info.description ELSE @]

\* TemplateGenerator.generate
generate(info) ==
    Render(info.name,
           info.args,
           SelectSeq(info.args, IsRequired),
           SelectSeq(info.args, IsOptional))

-----------------------------------------------------------------------------
(* The generator's inputs: operation dicts as asdict(OperationInfo) gives *)
(* them (scanner.py OperationArg, OperationInfo), from small sets.        *)

deploy == <<"d","e","p","l","o","y">>

Db_Up == <<"D","b","_","U","p">>

target == <<"t","a","r","g","e","t">>

force == <<"f","o","r","c","e">>

max_n == <<"m","a","x","_","n">>

OpNames == {deploy, Db_Up}

ArgNames == {target, force, max_n}

ArgTypes == {"string", "int"}

\* the default each flag's option declaration gives it
ArgDefaultOf(name) ==
    IF name = target THEN None ELSE IF name = force THEN Some("") ELSE Some("5")

OperationArg(name, required, arg_type, default, description) ==
    [name |-> name, required |-> required, arg_type |-> arg_type,
     default |-> default, description |-> description]

ArgDicts ==
    {OperationArg(n, r, t, ArgDefaultOf(n), "") :
        n \in ArgNames, r \in BOOLEAN, t \in ArgTypes}

ArgLists == UNION {[1..k -> ArgDicts] : k \in 0..MaxArgs}

\* the fields of an operation dict that the scan derives from the script
NoScript ==
    [description |-> "", script_path |-> "", functions |-> <<>>,
     env_vars |-> <<>>, error_conditions |-> <<>>, source_code |-> ""]

WithScript ==
    [description |-> "Deploys a build", script_path |-> "scripts/deploy.py",
     functions |-> <<[name |-> "main", docstring |-> "", args |-> <<>>]>>,
     env_vars |-> <<"DEPLOY_TOKEN">>,
     error_conditions |-> <<[type |-> "exit_code", count |-> 1,
                             pattern |-> "sys\\.exit\\((\\d+)\\)"]>>,
     source_code |-> "import sys"]

ArgDescriptions == {"", "help text"}

OperationInfo(name, args, description, d) ==
    [name |-> name,
     description |-> d.description,
     script_path |-> d.script_path,
     args |-> [i \in 1..Len(args) |-> [args[i] EXCEPT !.description = description]],
     functions |-> d.functions,
     env_vars |-> d.env_vars,
     error_conditions |-> d.error_conditions,
     source_code |-> d.source_code]

InitGen ==
    /\ operation_info \in {OperationInfo(n, a, "", NoScript) : n \in OpNames, a \in ArgLists}
    /\ rendered = NotCalled
    /\ prev_info = NotCalled
    /\ prev_rendered = NotCalled
    /\ fs = [cli |-> <<>>, scripts |-> <<>>]
    /\ repo_path = "root"
    /\ operations = <<>>
    /\ scan_results = "initial"
    /\ scans = 0
    /\ call = [op |-> "none"]
    /\ generated_tests = <<>>
    /\ output_dir = <<>>
    /\ now = 0
    /\ _last_event_time = 0
    /\ _previous_scan = <<>>
    /\ events = <<>>
    /\ changes = 0
    /\ remote_head = NoCommit
    /\ last_remote_sha = 0
    /\ prev_scan = <<>>
    /\ poller = "off"

\* orchestrator: test_content = generator.generate(op_dict)
Generate ==
    /\ rendered = NotCalled
    /\ rendered' = generate(operation_info)
    /\ UNCHANGED <<operation_info, prev_info, prev_rendered>>
    /\ UNCHANGED <<fs, repo_path, operations, scan_results, scans, call>>
    /\ UNCHANGED <<out_vars, watch_vars, poll_vars>>

\* A later scan hands the generator a dict for the same operation with the
\* same arguments, whose other fields may have changed.
NextModel ==
    /\ rendered # NotCalled
    /\ prev_info = NotCalled
    /\ \E d \in {NoScript, WithScript}, description \in ArgDescriptions :
          operation_info' =
              OperationInfo(operation_info.name, operation_info.args, description, d)
    /\ prev_info' = operation_info
    /\ prev_rendered' = rendered
    /\ rendered' = NotCalled
    /\ UNCHANGED <<fs, repo_path, operations, scan_results, scans, call>>
    /\ UNCHANGED <<out_vars, watch_vars, poll_vars>>

NextGen == Generate \/ NextModel

SpecGen == InitGen /\ [][NextGen]_vars

-----------------------------------------------------------------------------
(* Python dicts: insertion-ordered sequences of key/value entries with     *)
(* pairwise distinct keys.                                                 *)

EmptyDict == <<>>

Keys(d) == {d[i].k : i \in 1..Len(d)}

KeyList(d) == [i \in 1..Len(d) |-> d[i].k]

Get(d, key) == d[CHOOSE i \in 1..Len(d) : d[i].k = key].v

\* d[key] = value: an existing key keeps its position
Put(d, key, value) ==
    IF key \in Keys(d)
    THEN [i \in 1..Len(d) |-> IF d[i].k = key THEN [k |-> key, v |-> value] ELSE d[i]]
    ELSE Append(d, [k |-> key, v |-> value])

-----------------------------------------------------------------------------
(* Syntax trees (module ast), as far as the scanner inspects them.        *)
(* A Constant carries its Python type; the value of a str Constant that   *)
(* the scanner treats as a flag is a sequence of characters, every other  *)
(* value is opaque text (for a non-str constant: its str()).              *)

Constant(py, value) == [node |-> "Constant", py |-> py, value |-> value]

StrConst(value) == Constant("str", value)

NameNode(id) == [node |-> "Name", id |-> id]

AttributeNode(attr) == [node |-> "Attribute", attr |-> attr]

CallNode == [node |-> "Call"]

ListNode(elts) == [node |-> "List", elts |-> elts]

DictNode(items) == [node |-> "Dict", items |-> items]

Item(key, value) == [key |-> key, value |-> value]

Keyword(arg, value) == [arg |-> arg, value |-> value]

\* a decorator @<x>.<func_attr>(*args, **keywords) of a function named run
Decorator(func_attr, args, keywords) ==
    [node |-> "Call", func_attr |-> func_attr, args |-> args, keywords |-> keywords]

IsConstant(n) == n.node = "Constant"

\* s.lstrip("-")
RECURSIVE LStripDash(_)
LStripDash(s) ==
    IF s # <<>> /\ Head(s) = "-" THEN LStripDash(Tail(s)) ELSE s

\* elt.value.lstrip("-").replace("-", "_")
NormalizeFlag(s) == Replace(LStripDash(s), "-", "_")

\* s.startswith("--")
StartsWithDashDash(s) == Len(s) >= 2 /\ s[1] = "-" /\ s[2] = "-"

-----------------------------------------------------------------------------
(* RepoScanner._extract_operations_dict                                   *)

\* for elt in v.elts: if isinstance(elt, ast.Constant): append OperationArg
\* (elt.value.lstrip raises AttributeError when the constant is not a str)
RECURSIVE ExtractArgs(_, _)
ExtractArgs(elts, acc) ==
    IF elts = <<>> THEN [raised |-> "", args |-> acc]
    ELSE LET elt == Head(elts) IN
         IF ~IsConstant(elt) THEN ExtractArgs(Tail(elts), acc)
         ELSE IF elt.py # "str" THEN [raised |-> "AttributeError", args |-> acc]
         ELSE ExtractArgs(Tail(elts),
                  Append(acc, OperationArg(NormalizeFlag(elt.value), TRUE, "string", None, "")))

\* one k, v of the operation's dict literal applied to op_data
OpDataItem(k, v, op_data) ==
    IF ~IsConstant(k) THEN op_data
    ELSE IF k.value = "description" /\ IsConstant(v)
         THEN [op_data EXCEPT !.description = v.value]
    ELSE IF k.value = "script" /\ IsConstant(v)
         THEN [op_data EXCEPT !.script = v.value]
    ELSE IF k.value = "args" /\ v.node = "List"
         THEN [op_data EXCEPT !.raised = ExtractArgs(v.elts, op_data.args).raised,
                              !.args = ExtractArgs(v.elts, op_data.args).args]
    ELSE op_data

\* for k, v in zip(value.keys, value.values): fill op_data
RECURSIVE ExtractOpData(_, _)
ExtractOpData(items, op_data) ==
    IF items = <<>> \/ op_data.raised # "" THEN op_data
    ELSE ExtractOpData(Tail(items), OpDataItem(Head(items).key, Head(items).value, op_data))

\* OperationInfo(name=..., description=..., script_path=..., args=...)
NewOperationInfo(name, description, script_path, args) ==
    [name |-> name, description |-> description, script_path |-> script_path,
     args |-> args, functions |-> <<>>, env_vars |-> <<>>,
     error_conditions |-> <<>>, source_code |-> ""]

\* op_data = {"description": "", "args": [], "script": ""}
NewOpData == [description |-> "", args |-> <<>>, script |-> "", raised |-> ""]

\* the op_data of one registry value
OpDataOf(value) ==
    IF value.node = "Dict" THEN ExtractOpData(value.items, NewOpData) ELSE NewOpData

\* operations[op_name] = OperationInfo(...)
StoreEntry(r, op_name, op_data) ==
    IF op_data.raised # "" THEN [r EXCEPT !.raised = op_data.raised]
    ELSE [r EXCEPT !.ops = Put(@, op_name,
                                NewOperationInfo(op_name, op_data.description,
                                                 op_data.script, op_data.args))]

\* for key, value in zip(node.keys, node.values)
RECURSIVE ExtractEntries(_, _)
ExtractEntries(items, r) ==
    IF items = <<>> \/ r.raised # "" THEN r
    ELSE ExtractEntries(Tail(items),
             IF ~IsConstant(Head(items).key) THEN r
             ELSE StoreEntry(r, Head(items).key.value, OpDataOf(Head(items).value)))

_extract_operations_dict(node) ==
    IF node.node # "Dict" THEN [raised |-> "", ops |-> EmptyDict]
    ELSE ExtractEntries(node.items, [raised |-> "", ops |-> EmptyDict])

-----------------------------------------------------------------------------
(* RepoScanner._parse_click_options                                       *)

\* the first positional string constant that starts with "--", normalized;
\* None when there is none
RECURSIVE OptName(_)
OptName(args) ==
    IF args = <<>> THEN None
    ELSE LET a == Head(args) IN
         IF IsConstant(a) /\ a.py = "str" /\ StartsWithDashDash(a.value)
         THEN Some(NormalizeFlag(a.value))
         ELSE OptName(Tail(args))

\* for kw in decorator.keywords
RECURSIVE ApplyKeywords(_, _)
ApplyKeywords(keywords, arg) ==
    IF keywords = <<>> THEN arg
    ELSE LET kw == Head(keywords) IN
         ApplyKeywords(Tail(keywords),
             IF kw.arg = "help" /\ IsConstant(kw.value)
                 THEN [arg EXCEPT !.description = kw.value.value]
             ELSE IF kw.arg = "default" /\ IsConstant(kw.value)
                 THEN [arg EXCEPT !.default = Some(kw.value.value)]
             ELSE IF kw.arg = "type"
                 THEN IF kw.value.node = "Attribute" THEN [arg EXCEPT !.arg_type = kw.value.attr]
                      ELSE IF kw.value.node = "Name" THEN [arg EXCEPT !.arg_type = kw.value.id]
                      ELSE arg
             ELSE IF kw.arg = "is_flag"
                 THEN [arg EXCEPT !.arg_type = "flag"]
             ELSE arg)

\* the records (none or one) a decorator adds; opt_name is its flag name
OptionRecord(decorator, opt_name) ==
    IF decorator.node = "Call" /\ decorator.func_attr = "option"
       /\ decorator.args # <<>> /\ opt_name # None /\ opt_name # Some(<<>>)
    THEN <<ApplyKeywords(decorator.keywords,
               OperationArg(opt_name[1], FALSE, "string", None, ""))>>
    ELSE <<>>

\* decorators: those of every function named run, in ast.walk order
RECURSIVE _parse_click_options(_)
_parse_click_options(decorators) ==
    IF decorators = <<>> THEN <<>>
    ELSE OptionRecord(Head(decorators), OptName(Head(decorators).args))
         \o _parse_click_options(Tail(decorators))

-----------------------------------------------------------------------------
(* RepoScanner._parse_cli, the merge of the option records into the       *)
(* registry's arguments                                                   *)

\* the merge without the assignment of the default
RECURSIVE MergeArg_DefaultNotCopied(_, _)
MergeArg_DefaultNotCopied(arg, cli_args) ==
    IF cli_args = <<>> THEN arg
    ELSE MergeArg_DefaultNotCopied(
             IF Head(cli_args).name = arg.name
             THEN [arg EXCEPT !.arg_type = Head(cli_args).arg_type,
                              !.description = Head(cli_args).description]
             ELSE arg,
             Tail(cli_args))

\* for cli_arg in cli_args: if cli_arg.name == arg.name: overwrite
RECURSIVE MergeArg(_, _)
MergeArg(arg, cli_args) ==
    IF cli_args = <<>> THEN arg
    ELSE LET cli_arg == Head(cli_args) IN
         MergeArg(IF cli_arg.name = arg.name
                  THEN [arg EXCEPT !.arg_type = cli_arg.arg_type,
                                   !.default = cli_arg.default,
                                   !.description = cli_arg.description]
                  ELSE arg,
                  Tail(cli_args))

\* the merge as a union: option records that match no argument are appended
MergeCliArgs_AddsUnmatched(ops, cli_args) ==
    [i \in 1..Len(ops) |->
        [ops[i] EXCEPT !.v.args =
            [j \in 1..Len(@) |-> MergeArg(@[j], cli_args)]
            \o SelectSeq(cli_args,
                   LAMBDA c : \A j \in 1..Len(ops[i].v.args) : ops[i].v.args[j].name # c.name)]]

\* for op_name, op_info in operations.items(): for arg in op_info.args
MergeCliArgs(ops, cli_args) ==
    [i \in 1..Len(ops) |->
        [ops[i] EXCEPT !.v.args =
            [j \in 1..Len(@) |-> MergeArg(@[j], cli_args)]]]

-----------------------------------------------------------------------------
(* The file system under the repository.  A directory is named by its     *)
(* anchor: "root" is the directory the scanner was constructed with,      *)
(* "pkg" is root/pkg and "vendor" is root/pkg/vendor.  disk.cli maps         *)
(* <<anchor, relative path>> of every cli.py that exists to the id of its *)
(* content; disk.scripts maps <<anchor, subdirectory, script path>> of every *)
(* script file that exists to the id of its content.                      *)

Anchors == <<"root", "pkg", "vendor">>

\* len(p.split(os.sep)) up to a constant
Depth(anchor) == CHOOSE i \in 1..Len(Anchors) : Anchors[i] = anchor

\* the directories os.walk(top) visits
Walked(top) == {Anchors[i] : i \in Depth(top)..Len(Anchors)}

CliExists(disk, anchor, rel) == <<anchor, rel>> \in DOMAIN disk.cli

\* what os.path.join(anchor, sub, rel) names; with rel = "" the join is the
\* directory itself (only reached with sub = "", the repository directory)
PathKind(disk, anchor, sub, rel) ==
    IF rel = "" THEN "dir"
    ELSE IF <<anchor, sub, rel>> \in DOMAIN disk.scripts THEN "file" ELSE "absent"

Candidates == <<"cli.py", "service_console/cli.py", "src/cli.py">>

\* RepoScanner._parse_cli, lines 62-85: where cli.py is taken from and the
\* repo_path the search leaves
LocateCli(disk, path) ==
    IF CliExists(disk, path, "service_console/cli.py")
    THEN [found |-> TRUE, anchor |-> path, rel |-> "service_console/cli.py",
          path |-> path]
    ELSE IF \E i \in 1..Len(Candidates) : CliExists(disk, path, Candidates[i])
    THEN LET i == CHOOSE i \in 1..Len(Candidates) :
                     /\ CliExists(disk, path, Candidates[i])
                     /\ \A j \in 1..(i - 1) : ~CliExists(disk, path, Candidates[j])
         IN  [found |-> TRUE, anchor |-> path, rel |-> Candidates[i],
              path |-> path]
    ELSE LET matches == {a \in Walked(path) :
                            CliExists(disk, a, "service_console/cli.py")}
         IN  IF matches # {}
             THEN LET a == CHOOSE a \in matches : \A b \in matches : Depth(a) <= Depth(b)
                  IN  [found |-> TRUE, anchor |-> a, rel |-> "service_console/cli.py",
                       path |-> a]
             ELSE [found |-> FALSE, anchor |-> path, rel |-> "service_console/cli.py",
                   path |-> path]

-----------------------------------------------------------------------------
(* Contents of files *)

backup == <<"b","a","c","k","u","p">>

region == <<"r","e","g","i","o","n">>

restore == <<"r","e","s","t","o","r","e">>

Flag(name) == <<"-", "-">> \o Replace(name, "_", "-")

DeployEntry ==
    Item(StrConst(deploy),
         DictNode(<<Item(StrConst("description"), StrConst("Deploys a build")),
                    Item(StrConst("script"), StrConst("deploy.py")),
                    Item(StrConst("args"),
                         ListNode(<<StrConst(Flag(target)), StrConst(Flag(max_n))>>))>>))

BackupEntry ==
    Item(StrConst(backup),
         DictNode(<<Item(StrConst("script"), StrConst("backup.py")),
                    Item(StrConst("args"),
                         ListNode(<<StrConst(Flag(target)), StrConst(Flag(region))>>))>>))

\* 'restore': {'args': ['--target']}: an entry that names no script
RestoreEntry ==
    Item(StrConst(restore),
         DictNode(<<Item(StrConst("args"), ListNode(<<StrConst(Flag(target))>>))>>))

\* 'restore': make_entry(): the value is a call, not a dict literal
RestoreCallEntry == Item(StrConst(restore), CallNode)

\* OP_NAME: {...}: the key is a name, not a constant
NameKeyEntry ==
    Item(NameNode("OP_NAME"),
         DictNode(<<Item(StrConst("script"), StrConst("backup.py"))>>))

\* 42: {...}: the key is a constant that is not a str
IntKeyEntry ==
    Item(Constant("int", <<"4","2">>),
         DictNode(<<Item(StrConst("script"), StrConst("deploy.py"))>>))

\* 'deploy': {..., 'args': [TARGET_FLAG, '--target', '--max-n']}
DeployNameArgEntry ==
    Item(StrConst(deploy),
         DictNode(<<Item(StrConst("script"), StrConst("deploy.py")),
                    Item(StrConst("args"),
                         ListNode(<<NameNode("TARGET_FLAG"), StrConst(Flag(target)),
                                    StrConst(Flag(max_n))>>))>>))

\* 'backup': {..., 'args': ['--target', 5]}
BackupIntArgEntry ==
    Item(StrConst(backup),
         DictNode(<<Item(StrConst("script"), StrConst("backup.py")),
                    Item(StrConst("args"),
                         ListNode(<<StrConst(Flag(target)), Constant("int", "5")>>))>>))

\* 'deploy': {..., 'args': ['--max-n', '--max_n', '--target']}
DeployRepeatedArgEntry ==
    Item(StrConst(deploy),
         DictNode(<<Item(StrConst("script"), StrConst("deploy.py")),
                    Item(StrConst("args"),
                         ListNode(<<StrConst(Flag(max_n)), StrConst(<<"-","-">> \o max_n),
                                    StrConst(Flag(target))>>))>>))

\* 'Deploy': {'script': 'deploy.py'}, a name that differs from 'deploy' in
\* case only
DeployUpperEntry ==
    Item(StrConst(<<"D","e","p","l","o","y">>),
         DictNode(<<Item(StrConst("script"), StrConst("deploy.py"))>>))

\* @click.argument("operation"), --target, --max-n, --force, -q
OptionsA ==
    <<Decorator("argument", <<StrConst(<<"o","p">>)>>, <<>>),
      Decorator("option", <<StrConst(Flag(target)), StrConst(<<"-","t">>)>>,
                <<Keyword("help", StrConst("Target host"))>>),
      Decorator("option", <<StrConst(Flag(max_n))>>,
                <<Keyword("type", NameNode("int")), Keyword("default", Constant("int", "3")),
                  Keyword("help", StrConst("Maximum count"))>>),
      Decorator("option", <<StrConst(Flag(force))>>,
                <<Keyword("is_flag", Constant("bool", "True")),
                  Keyword("help", StrConst("Skip confirmation"))>>),
      Decorator("option", <<StrConst(<<"-","q">>)>>, <<>>)>>

\* --target typed click.Path with default None; --max-n declared twice, the
\* second time as --max_n
OptionsB ==
    <<Decorator("option", <<StrConst(<<"-","t">>), StrConst(Flag(target))>>,
                <<Keyword("type", AttributeNode("Path")),
                  Keyword("default", Constant("NoneType", "None"))>>),
      Decorator("option", <<StrConst(Flag(max_n))>>,
                <<Keyword("type", NameNode("int")), Keyword("default", Constant("int", "3"))>>),
      Decorator("option", <<StrConst(<<"-","-">> \o max_n)>>,
                <<Keyword("default", Constant("int", "7")),
                  Keyword("help", StrConst("Maximum count"))>>)>>

CliSource(syntax_ok, assigns, decorators) ==
    [syntax_ok |-> syntax_ok, assigns |-> assigns, decorators |-> decorators]

\* the content of a cli.py, by id
CliFile(id) ==
    CASE id = "cli_two" -> CliSource(TRUE, <<DictNode(<<DeployEntry, BackupEntry>>)>>, OptionsA)
      [] id = "cli_one" -> CliSource(TRUE, <<DictNode(<<DeployEntry>>)>>, OptionsA)
      [] id = "cli_opts" -> CliSource(TRUE, <<DictNode(<<BackupEntry, DeployEntry>>)>>, OptionsB)
      [] id = "cli_computed" -> CliSource(TRUE, <<CallNode>>, OptionsA)
      [] id = "cli_broken" -> CliSource(FALSE, <<>>, <<>>)
      [] id = "cli_noscript" -> CliSource(TRUE, <<DictNode(<<DeployEntry, RestoreEntry>>)>>, OptionsA)
      [] id = "cli_callvalue" ->
            CliSource(TRUE, <<DictNode(<<DeployEntry, RestoreCallEntry>>)>>, OptionsA)
      [] id = "cli_keys" ->
            CliSource(TRUE, <<DictNode(<<NameKeyEntry, IntKeyEntry, DeployNameArgEntry>>)>>,
                      OptionsA)
      [] id = "cli_intarg" ->
            CliSource(TRUE, <<DictNode(<<BackupIntArgEntry, DeployEntry>>)>>, OptionsA)
      [] id = "cli_repeated" ->
            CliSource(TRUE, <<DictNode(<<DeployRepeatedArgEntry>>)>>, OptionsA)
      [] id = "cli_case" ->
            CliSource(TRUE, <<DictNode(<<DeployUpperEntry, DeployEntry>>)>>, OptionsA)
      [] id = "cli_none" -> CliSource(TRUE, <<>>, OptionsA)
      [] id = "cli_reassigned" ->
            CliSource(TRUE, <<DictNode(<<DeployEntry>>), CallNode>>, OptionsA)

\* (pattern, error_type) of error_patterns, in order
ErrorPatterns ==
    <<[pattern |-> "print\\(.*\"Error:.*\"", type |-> "error_print"],
      [pattern |-> "sys\\.exit\\((\\d+)\\)", type |-> "exit_code"],
      [pattern |-> "file=sys\\.stderr", type |-> "stderr_output"],
      [pattern |-> "status.*error", type |-> "error_status"],
      [pattern |-> "return 1", type |-> "failure_return"]>>

\* a script: its text, whether ast.parse accepts it, its FunctionDef nodes,
\* what env_pattern finds, how often each error pattern matches, its docstring
ScriptSource(source, syntax_ok, functions, env_vars, matches, module_doc) ==
    [source |-> source, syntax_ok |-> syntax_ok, functions |-> functions,
     env_vars |-> env_vars, matches |-> matches, module_doc |-> module_doc]

ScriptFile(id) ==
    CASE id = "deploy_v1" ->
            ScriptSource("deploy v1", TRUE,
                <<[name |-> "main", docstring |-> "Run the deploy", args |-> <<"host">>]>>,
                <<"DEPLOY_TOKEN", "DEPLOY_TOKEN">>, <<1, 2, 1, 0, 0>>, "Deploy script")
      [] id = "deploy_v2" ->
            ScriptSource("deploy v2", TRUE, <<>>, <<>>, <<0, 0, 0, 0, 1>>, "")
      [] id = "backup_v1" ->
            ScriptSource("backup v1", TRUE,
                <<[name |-> "run", docstring |-> "", args |-> <<>>]>>,
                <<"BACKUP_DIR">>, <<0, 1, 0, 0, 0>>, "Backup script")
      [] id = "unparsable" ->
            ScriptSource("def main(:", FALSE, <<>>, <<>>, <<0, 0, 0, 0, 0>>, "")

-----------------------------------------------------------------------------
(* RepoScanner._parse_cli *)

\* the walk keeping what an earlier literal gave when a later assignment is
\* not a dict literal
RECURSIVE ExtractAssigns_KeepsEarlier(_, _)
ExtractAssigns_KeepsEarlier(assigns, r) ==
    IF assigns = <<>> \/ r.raised # "" THEN r
    ELSE ExtractAssigns_KeepsEarlier(Tail(assigns),
             IF Head(assigns).node = "Dict" THEN _extract_operations_dict(Head(assigns))
             ELSE r)

\* for node in ast.walk(tree): ... operations = self._extract_operations_dict(...)
RECURSIVE ExtractAssigns(_, _)
ExtractAssigns(assigns, r) ==
    IF assigns = <<>> \/ r.raised # "" THEN r
    ELSE ExtractAssigns(Tail(assigns), _extract_operations_dict(Head(assigns)))

\* lines 100-113: the option records merged into what the registry gave
MergeInto(r, path, cli_args) ==
    IF r.raised # ""
    THEN [raised |-> r.raised, at |-> "_extract_operations_dict", ops |-> EmptyDict,
          path |-> path]
    ELSE [raised |-> "", at |-> "", ops |-> MergeCliArgs(r.ops, cli_args), path |-> path]

\* ast.parse wrapped in a handler that gives up with no operations
ParseTree_SwallowsSyntaxError(tree, path) ==
    IF ~tree.syntax_ok
    THEN [raised |-> "", at |-> "", ops |-> EmptyDict, path |-> path]
    ELSE MergeInto(ExtractAssigns(tree.assigns, [raised |-> "", ops |-> EmptyDict]),
                   path, _parse_click_options(tree.decorators))

\* lines 87-113 on the file that was found
ParseTree(tree, path) ==
    IF ~tree.syntax_ok
    THEN [raised |-> "SyntaxError", at |-> "_parse_cli", ops |-> EmptyDict, path |-> path]
    ELSE MergeInto(ExtractAssigns(tree.assigns, [raised |-> "", ops |-> EmptyDict]),
                   path, _parse_click_options(tree.decorators))

ParseLocated(loc, disk) ==
    IF ~loc.found
    THEN [raised |-> "", at |-> "", ops |-> EmptyDict, path |-> loc.path]
    ELSE ParseTree(CliFile(disk.cli[<<loc.anchor, loc.rel>>]), loc.path)

_parse_cli(disk, path) == ParseLocated(LocateCli(disk, path), disk)

-----------------------------------------------------------------------------
(* RepoScanner._parse_operation_script *)

\* one error_conditions entry per pattern with at least one match
ErrorConditions(matches) ==
    LET hit == SelectSeq([i \in 1..Len(ErrorPatterns) |-> i], LAMBDA i : matches[i] > 0)
    IN  [j \in 1..Len(hit) |->
            [type |-> ErrorPatterns[hit[j]].type, count |-> matches[hit[j]],
             pattern |-> ErrorPatterns[hit[j]].pattern]]

\* the directory under path the script is opened in
ScriptDir(disk, path, script_path) ==
    IF PathKind(disk, path, "", script_path) = "absent"
       /\ PathKind(disk, path, "service_console", script_path) # "absent"
    THEN "service_console" ELSE ""

\* lines 204-244 on the text that was read
ParseScript(script, op_info) ==
    IF ~script.syntax_ok
    THEN [raised |-> "SyntaxError", op_info |-> [op_info EXCEPT !.source_code = script.source]]
    ELSE [raised |-> "",
          op_info |->
            [op_info EXCEPT
               !.source_code = script.source,
               !.functions = @ \o script.functions,
               !.env_vars = script.env_vars,
               !.error_conditions = @ \o ErrorConditions(script.matches),
               !.description =
                   IF script.module_doc # "" /\ @ = "" THEN script.module_doc ELSE @]]

OpenScript(kind, sub, op_info, disk, path) ==
    IF kind = "absent" THEN [raised |-> "", op_info |-> op_info]
    ELSE IF kind = "dir" THEN [raised |-> "IsADirectoryError", op_info |-> op_info]
    ELSE ParseScript(ScriptFile(disk.scripts[<<path, sub, op_info.script_path>>]), op_info)

ResolveScript(sub, op_info, disk, path) ==
    OpenScript(PathKind(disk, path, sub, op_info.script_path), sub, op_info, disk, path)

_parse_operation_script(op_info, disk, path) ==
    ResolveScript(ScriptDir(disk, path, op_info.script_path), op_info, disk, path)

-----------------------------------------------------------------------------
(* RepoScanner.scan *)

\* self.operations[op_name] = op_info, unless parsing the script raised
StoreParsed(acc, op_name, r) ==
    IF r.raised # ""
    THEN [acc EXCEPT !.raised = r.raised, !.at = "_parse_operation_script"]
    ELSE [acc EXCEPT !.ops = Put(@, op_name, r.op_info)]

\* for op_name, op_info in cli_operations.items(): parse, then store
RECURSIVE ScanLoop(_, _, _)
ScanLoop(cli_operations, acc, disk) ==
    IF cli_operations = <<>> \/ acc.raised # "" THEN acc
    ELSE ScanLoop(Tail(cli_operations),
                  StoreParsed(acc, Head(cli_operations).k,
                              _parse_operation_script(Head(cli_operations).v, disk, acc.path)),
                  disk)

\* lines 52-58, after _parse_cli returned or raised
ScanParsed(cli, ops, disk) ==
    IF cli.raised # ""
    THEN [raised |-> cli.raised, at |-> cli.at, ops |-> ops, path |-> cli.path]
    ELSE ScanLoop(cli.ops, [raised |-> "", at |-> "", ops |-> ops, path |-> cli.path], disk)

\* scan() on a scanner whose fields operations and repo_path are `ops` and
\* `path`: the exception it raises (if any) and the fields it leaves; when it
\* returns, it returns self.operations
scan(ops, disk, path) == ScanParsed(_parse_cli(disk, path), ops, disk)

-----------------------------------------------------------------------------
(* TestAutomationAgent.scan_for_changes *)

NonePrev == [is_none |-> TRUE, d |-> <<>>]

DictPrev(d) == [is_none |-> FALSE, d |-> d]

\* previous_operations.get(name, {}).get("source_code", "")
PrevSource(previous_operations, name) ==
    IF name \notin Keys(previous_operations) THEN ""
    ELSE IF Get(previous_operations, name).source_code = None THEN ""
    ELSE Get(previous_operations, name).source_code[1]

\* added = curr_names - prev_names
AddedNames(previous_operations, current) ==
    Keys(current) \ Keys(previous_operations)

\* the comparison of source code skipped for an operation that has none
ModifiedNames_SkipsEmptySource(previous_operations, current) ==
    {name \in Keys(current) \cap Keys(previous_operations) :
        /\ Get(current, name).source_code # ""
        /\ Get(current, name).source_code # PrevSource(previous_operations, name)}

\* for name in curr_names & prev_names: if current[name].source_code != ...
ModifiedNames(previous_operations, current) ==
    {name \in Keys(current) \cap Keys(previous_operations) :
        Get(current, name).source_code # PrevSource(previous_operations, name)}

\* the orders a loop over a set of names can take
Orderings(S) ==
    {q \in [1..Cardinality(S) -> S] : \A i, j \in DOMAIN q : i # j => q[i] # q[j]}

\* the lists scan_for_changes can return for what scan() returned
ChangedLists(previous, current) ==
    IF previous.is_none THEN {KeyList(current)}
    ELSE {a \o m : a \in Orderings(AddedNames(previous.d, current)),
                   m \in Orderings(ModifiedNames(previous.d, current))}

-----------------------------------------------------------------------------
(* The states of the repository *)

RootScripts(deploy_id) ==
    (<<"root", "", "deploy.py">> :> deploy_id)
    @@ (<<"root", "service_console", "backup.py">> :> "backup_v1")

PkgScripts ==
    (<<"pkg", "", "deploy.py">> :> "deploy_v1")
    @@ (<<"pkg", "service_console", "backup.py">> :> "backup_v1")

NoFiles == <<>>

Repo(cli, scripts) == [cli |-> cli, scripts |-> scripts]

Repos ==
    {Repo(<<"root", "service_console/cli.py">> :> c, RootScripts(d)) :
        c \in {"cli_two", "cli_one", "cli_broken"},
        d \in {"deploy_v1", "deploy_v2", "unparsable"}}
    \cup {Repo(<<"root", "service_console/cli.py">> :> c, RootScripts("deploy_v1")) :
        c \in {"cli_opts", "cli_computed", "cli_noscript", "cli_callvalue", "cli_keys",
               "cli_intarg", "cli_repeated", "cli_none", "cli_reassigned", "cli_case"}}
    \cup {Repo(<<"root", "service_console/cli.py">> :> "cli_opts", RootScripts("unparsable")),
          Repo(NoFiles, RootScripts("deploy_v1")),
          Repo(<<"root", "cli.py">> :> "cli_two", NoFiles),
          Repo((<<"root", "src/cli.py">> :> "cli_one") @@ (<<"root", "cli.py">> :> "cli_two"),
               RootScripts("deploy_v2")),
          Repo(<<"root", "src/cli.py">> :> "cli_one", RootScripts("deploy_v1")),
          Repo((<<"vendor", "service_console/cli.py">> :> "cli_one")
               @@ (<<"pkg", "service_console/cli.py">> :> "cli_two"), PkgScripts),
          Repo(<<"vendor", "service_console/cli.py">> :> "cli_one", PkgScripts)}

\* the previous mapping the watcher builds from the results it kept:
\* {name: {"source_code": op.source_code}}
SourceSnapshot(results) ==
    [i \in 1..Len(results) |->
        [k |-> results[i].k, v |-> [source_code |-> Some(results[i].v.source_code)]]]

\* previous mappings a caller can pass
Previous(results) ==
    {NonePrev,
     DictPrev(EmptyDict),
     DictPrev(SourceSnapshot(results)),
     DictPrev(<<[k |-> deploy, v |-> [source_code |-> Some("deploy v1")]],
                [k |-> restore, v |-> [source_code |-> Some("restore v1")]]>>),
     DictPrev(<<[k |-> backup, v |-> [source_code |-> None]]>>)}

-----------------------------------------------------------------------------
(* TestAutomationAgent: test generation.  A test file's content is who    *)
(* wrote it and what it was written from: the free-form generator's text  *)
(* is a function of the whole operation dict (llm_client._build_prompt),  *)
(* the template's text is generate(op_dict).  MockLLMClient.generate_tests *)
(* returns the template's text and never raises.                          *)

\* operation names that are int objects (the key of IntKeyEntry); no str
\* name of the model is written with the same digits
IntNames == {<<"4","2">>}

LLMContent(op_dict) == [by |-> "llm", body |-> op_dict]

TemplateContent(op_dict) == [by |-> "template", body |-> generate(op_dict)]

\* f"test_{op_name.lower()}.robot"
Filename(op_name) == "test_" \o Str(Lower(op_name)) \o ".robot"

\* _generate_test: the content (the template's when the free-form generator
\* raised), then the file name, which raises AttributeError for a name that
\* has no lower()
_generate_test(op_name, op_info, llm_raises) ==
    [raised |-> IF op_name \in IntNames THEN "AttributeError" ELSE "",
     test_content |-> IF llm_raises THEN TemplateContent(op_info) ELSE LLMContent(op_info),
     filename |-> Filename(op_name)]

\* the file written, and self.generated_tests[op_name] = test_content
StoreTest(acc, op_name, g) ==
    IF g.raised # "" THEN [acc EXCEPT !.raised = g.raised]
    ELSE [acc EXCEPT !.generated_tests = Put(@, op_name, g.test_content),
                     !.output_dir = Put(@, g.filename, g.test_content)]

\* for op_name, op_info in self.scan_results.items()
RECURSIVE _generate_all_tests(_, _, _)
_generate_all_tests(items, acc, fails) ==
    IF items = <<>> \/ acc.raised # "" THEN acc
    ELSE _generate_all_tests(Tail(items),
             StoreTest(acc, Head(items).k,
                       _generate_test(Head(items).k, Head(items).v, Head(items).k \in fails)),
             fails)

\* the file written by _generate_test; generated_tests is left alone
StoreFile(acc, g) ==
    IF g.raised # "" THEN [acc EXCEPT !.raised = g.raised]
    ELSE [acc EXCEPT !.output_dir = Put(@, g.filename, g.test_content)]

\* for name in operation_names: if name in self.scan_results
RECURSIVE generate_for_operations(_, _, _, _)
generate_for_operations(operation_names, results, acc, fails) ==
    IF operation_names = <<>> \/ acc.raised # "" THEN acc
    ELSE generate_for_operations(Tail(operation_names), results,
             IF Head(operation_names) \notin Keys(results) THEN acc
             ELSE StoreFile(acc, _generate_test(Head(operation_names),
                                                Get(results, Head(operation_names)),
                                                Head(operation_names) \in fails)),
             fails)

SharedContent(results) == [by |-> "agent", body |-> KeyList(results)]

\* scan_metadata.json: "operations" and "test_files"
ScanMetadata(results) ==
    [by |-> "agent",
     operations |-> KeyList(results),
     test_files |-> [i \in 1..Len(results) |-> Filename(results[i].k)]]

\* common.resource, __init__.robot and scan_metadata.json
_generate_shared_resources(acc, results) ==
    IF acc.raised # "" THEN acc
    ELSE [acc EXCEPT !.output_dir =
             Put(Put(Put(@, "common.resource", SharedContent(results)),
                     "__init__.robot", SharedContent(results)),
                 "scan_metadata.json", ScanMetadata(results))]

-----------------------------------------------------------------------------
(* The scanner and the agent as a state machine *)

NoCall == [op |-> "none"]

\* OperationChangeHandler.debounce_seconds
DebounceSeconds == 2

\* the agent and its scanner as constructed; the clock reads a time that is
\* not within debounce_seconds of time 0
AgentConstructed ==
    /\ repo_path = "root"
    /\ operations = EmptyDict
    /\ scan_results = "initial"
    /\ scans = 0
    /\ call = NoCall
    /\ operation_info = NotCalled
    /\ rendered = NotCalled
    /\ prev_info = NotCalled
    /\ prev_rendered = NotCalled
    /\ generated_tests = EmptyDict
    /\ output_dir = EmptyDict
    /\ now = DebounceSeconds
    /\ _last_event_time = 0
    /\ _previous_scan = None
    /\ events = <<>>
    /\ changes = 0
    /\ last_remote_sha = 0
    /\ prev_scan = <<>>
    /\ poller = "off"

Init ==
    /\ fs \in Repos
    /\ remote_head = NoCommit
    /\ AgentConstructed

\* the repository changes on disk (an edit, a pull)
EditRepo ==
    /\ call # NoCall
    /\ scans < MaxScans
    /\ fs' \in Repos \ {fs}
    /\ call' = NoCall
    /\ UNCHANGED <<repo_path, operations, scan_results, scans>>
    /\ UNCHANGED <<gen_vars, out_vars, watch_vars, poll_vars>>

\* the scanner's fields after scan() ended as r
ScannerAfter(r) ==
    /\ operations' = r.ops
    /\ repo_path' = r.path
    /\ scans' = scans + 1
    /\ UNCHANGED fs

\* scanner.scan()
ScanEnds(r) ==
    /\ ScannerAfter(r)
    /\ call' = [op |-> "scan", raised |-> r.raised, at |-> r.at]
    /\ UNCHANGED scan_results

Scan ==
    /\ scans < MaxScans
    /\ ScanEnds(scan(operations, fs, repo_path))
    /\ UNCHANGED <<gen_vars, out_vars, watch_vars, poll_vars>>

\* scan_for_changes, lines 86-112, after scan() ended as r
ScanForChangesEnds(previous, r) ==
    /\ ScannerAfter(r)
    /\ IF r.raised # ""
       THEN /\ call' = [op |-> "scan_for_changes", raised |-> r.raised, at |-> r.at,
                        previous |-> previous, returned |-> <<>>]
            /\ UNCHANGED scan_results
       ELSE /\ \E changed \in ChangedLists(previous, r.ops) :
                 call' = [op |-> "scan_for_changes", raised |-> "", at |-> "",
                          previous |-> previous, returned |-> changed]
            /\ scan_results' = IF previous.is_none THEN scan_results
                               ELSE "scanner.operations"

\* agent.scan_for_changes(previous)
ScanForChanges ==
    /\ scans < MaxScans
    /\ \E previous \in Previous(operations) :
          ScanForChangesEnds(previous, scan(operations, fs, repo_path))
    /\ UNCHANGED <<gen_vars, out_vars, watch_vars, poll_vars>>

\* run(), lines 70-81, after the batch and the shared resources ended as g
RunGenerated(g, fails) ==
    /\ generated_tests' = g.generated_tests
    /\ output_dir' = g.output_dir
    /\ call' = [op |-> "run", raised |-> g.raised,
                at |-> IF g.raised # "" THEN "_generate_test" ELSE "",
                scanned |-> TRUE, failed |-> fails]

\* run(), after scan() ended as r; `fails` are the operations for which the
\* free-form generator raises
RunEnds(r, fails) ==
    /\ ScannerAfter(r)
    /\ IF r.raised # ""
       THEN /\ call' = [op |-> "run", raised |-> r.raised, at |-> r.at,
                        scanned |-> FALSE, failed |-> {}]
            /\ UNCHANGED <<scan_results, generated_tests, output_dir>>
       ELSE /\ scan_results' = "scanner.operations"
            /\ RunGenerated(
                   _generate_shared_resources(
                       _generate_all_tests(r.ops,
                           [raised |-> "", generated_tests |-> generated_tests,
                            output_dir |-> output_dir],
                           fails),
                       r.ops),
                   fails)

RunScanned(r) == \E fails \in SUBSET Keys(r.ops) : RunEnds(r, fails)

\* agent.run(), the first call made on an agent (main.py generate,
\* watcher.watch_repo)
Run ==
    /\ scans = 0
    /\ RunScanned(scan(operations, fs, repo_path))
    /\ UNCHANGED <<gen_vars, watch_vars, poll_vars>>

Next == EditRepo \/ Scan \/ ScanForChanges \/ Run

Spec == Init /\ [][Next]_vars

-----------------------------------------------------------------------------
(* watcher.watch_repo on a local directory: the initial run, then the     *)
(* observer's thread dispatching file system events to                    *)
(* OperationChangeHandler one at a time.  An event is "py" (a file whose   *)
(* path ends in .py was created or modified), "dir" (a directory event)   *)
(* or "txt" (any other file).                                              *)

\* trees for the error paths: two that scan and generate, one whose cli.py
\* does not parse, one whose registry has an int key
FaultyRepos ==
    {Repo(<<"root", "service_console/cli.py">> :> "cli_one", RootScripts(d)) :
        d \in {"deploy_v1", "deploy_v2"}}
    \cup {Repo(<<"root", "service_console/cli.py">> :> c, RootScripts("deploy_v1")) :
        c \in {"cli_broken", "cli_keys"}}

\* the trees the watched repository moves between
WatchRepos ==
    {Repo(<<"root", "service_console/cli.py">> :> c, RootScripts(d)) :
        c \in {"cli_two", "cli_one"}, d \in {"deploy_v1", "deploy_v2"}}

InitWatch ==
    /\ fs \in WatchRepos
    /\ remote_head = NoCommit
    /\ AgentConstructed

\* watch_repo, lines 94-113: agent.run(), then the handler is created with
\* _previous_scan = dict(agent.scan_results); an exception of run() leaves
\* watch_repo before there is a handler
WatchRepo ==
    /\ scans = 0
    /\ call = NoCall
    /\ RunScanned(scan(operations, fs, repo_path))
    /\ _previous_scan' = IF call'.raised = "" THEN Some(operations') ELSE None
    /\ UNCHANGED <<now, _last_event_time, events, changes>>
    /\ UNCHANGED poll_vars
    /\ UNCHANGED gen_vars

Watching == _previous_scan # None

\* the observer queues the event of a .py file that was written
PyEventQueued ==
    /\ Watching
    /\ Len(events) < MaxPending
    /\ changes < MaxChanges
    /\ events' = Append(events, "py")
    /\ changes' = changes + 1
    /\ UNCHANGED <<repo_path, operations, scan_results, scans, call>>
    /\ UNCHANGED <<now, _last_event_time, _previous_scan>>
    /\ UNCHANGED poll_vars
    /\ UNCHANGED <<gen_vars, out_vars>>

\* a .py file of the repository is written: the tree changes and the
\* observer queues an event
FileChange ==
    /\ fs' \in WatchRepos \ {fs}
    /\ PyEventQueued

\* an event for a directory or for a file that is not a .py file
OtherChange ==
    /\ Watching
    /\ Len(events) < MaxPending
    /\ \E e \in {"dir", "txt"} : events' = Append(events, e)
    /\ UNCHANGED <<fs, repo_path, operations, scan_results, scans, call>>
    /\ UNCHANGED <<now, _last_event_time, _previous_scan, changes>>
    /\ UNCHANGED poll_vars
    /\ UNCHANGED <<gen_vars, out_vars>>

\* a second passes
Tick ==
    /\ Watching
    /\ now < DebounceSeconds + MaxTime
    /\ now' = now + 1
    /\ UNCHANGED <<_last_event_time, _previous_scan, events, changes>>
    /\ UNCHANGED poll_vars
    /\ UNCHANGED <<gen_vars, scan_vars, out_vars>>

\* _handle_change returns at line 38, 41 or 45
Dropped(outcome) ==
    /\ call' = [op |-> "_handle_change", raised |-> "", at |-> "", outcome |-> outcome,
                scanned |-> FALSE, changed |-> <<>>]
    /\ UNCHANGED <<fs, repo_path, operations, scan_results, scans>>
    /\ UNCHANGED <<_last_event_time, _previous_scan>>
    /\ UNCHANGED out_vars

\* the handler replacing its snapshot also when the regeneration raised
Regenerated_SnapshotAlways(g, results, changed) ==
    /\ output_dir' = g.output_dir
    /\ _previous_scan' = Some(results)
    /\ call' = [op |-> "_handle_change", raised |-> "", at |-> "",
                outcome |-> IF g.raised # "" THEN "error" ELSE "processed",
                scanned |-> TRUE, changed |-> changed]

\* lines 61-68 after scan_for_changes returned `changed` and
\* generate_for_operations ended as g: an exception is caught at line 70 and
\* _previous_scan keeps its value
Regenerated(g, results, changed) ==
    /\ output_dir' = g.output_dir
    /\ _previous_scan' = IF g.raised # "" THEN _previous_scan ELSE Some(results)
    /\ call' = [op |-> "_handle_change", raised |-> "", at |-> "",
                outcome |-> IF g.raised # "" THEN "error" ELSE "processed",
                scanned |-> TRUE, changed |-> changed]

\* lines 51-71 after the scan of scan_for_changes(prev) ended as r
Processed(prev, r) ==
    /\ ScannerAfter(r)
    /\ UNCHANGED generated_tests
    /\ IF r.raised # ""
       THEN /\ call' = [op |-> "_handle_change", raised |-> "", at |-> "",
                        outcome |-> "error", scanned |-> FALSE, changed |-> <<>>]
            /\ UNCHANGED <<scan_results, output_dir, _previous_scan>>
       ELSE /\ scan_results' = "scanner.operations"
            /\ \E changed \in ChangedLists(prev, r.ops) :
                 \E fails \in SUBSET {changed[i] : i \in DOMAIN changed} :
                    Regenerated(
                        generate_for_operations(changed, r.ops,
                            [raised |-> "", output_dir |-> output_dir], fails),
                        r.ops, changed)

\* lines 52-57: prev, built from the snapshot when it is not empty
HandlerPrev(snapshot) ==
    IF snapshot # None /\ snapshot[1] # EmptyDict
    THEN DictPrev(SourceSnapshot(snapshot[1]))
    ELSE DictPrev(EmptyDict)

\* lines 43-71 for an event of a .py file
PyChange ==
    IF now - _last_event_time < DebounceSeconds
    THEN Dropped("debounced")
    ELSE /\ _last_event_time' = now
         /\ Processed(HandlerPrev(_previous_scan), scan(operations, fs, repo_path))

\* the observer's thread hands the oldest event to the handler:
\* on_modified, on_created, _handle_change
HandleChange ==
    /\ events # <<>>
    /\ events' = Tail(events)
    /\ CASE Head(events) = "dir" -> Dropped("directory")
         [] Head(events) = "txt" -> Dropped("not_py")
         [] OTHER -> PyChange
    /\ UNCHANGED <<now, changes, gen_vars, poll_vars>>

NextWatch == WatchRepo \/ FileChange \/ OtherChange \/ Tick \/ HandleChange

\* the steps in which the observer's thread takes an event off its queue:
\* the HandleChange steps, and enabled exactly when events # <<>>
Dispatch == events # <<>> /\ events' = Tail(events)

\* the observer's thread keeps dispatching queued events (weak fairness of
\* Dispatch, its enabling condition written out), and time passes
SpecWatch ==
    /\ InitWatch /\ [][NextWatch]_vars
    /\ []<>(events = <<>>) \/ []<><<Dispatch>>_vars
    /\ WF_vars(Tick)

\* the same watcher on a repository that is also given trees whose scan or
\* whose regeneration raises
InitWatchFaulty ==
    /\ fs \in FaultyRepos
    /\ remote_head = NoCommit
    /\ AgentConstructed

FaultyChange ==
    /\ fs' \in FaultyRepos \ {fs}
    /\ PyEventQueued

NextWatchFaulty == WatchRepo \/ FaultyChange \/ OtherChange \/ Tick \/ HandleChange

SpecWatchFaulty == InitWatchFaulty /\ [][NextWatchFaulty]_vars

-----------------------------------------------------------------------------
(* watcher.watch_repo on a git URL: the clone, the initial run, then the   *)
(* polling loop.  A commit is its SHA (a number, 0 for the empty string)   *)
(* and its tree.                                                           *)

\* lines 84-87 and 94-101: the working tree is the clone of the remote's HEAD
InitPoll ==
    /\ remote_head \in {[sha |-> 1, tree |-> t] : t \in FaultyRepos}
    /\ fs = remote_head.tree
    /\ AgentConstructed

\* lines 105 and 128-137: agent.run(), prev_scan, the first query of the
\* remote HEAD, which leaves last_remote_sha empty when it raises; an
\* exception of run() leaves watch_repo
WatchRemote ==
    /\ scans = 0
    /\ poller = "off"
    /\ call = NoCall
    /\ RunScanned(scan(operations, fs, repo_path))
    /\ IF call'.raised # ""
       THEN UNCHANGED <<poller, last_remote_sha, prev_scan>>
       ELSE /\ poller' = "polling"
            /\ prev_scan' = SourceSnapshot(operations')
            /\ last_remote_sha' \in {0, remote_head.sha}
    /\ UNCHANGED <<remote_head, gen_vars, watch_vars>>

\* a commit is pushed to the remote
Push ==
    /\ poller = "polling"
    /\ remote_head.sha <= MaxChanges
    /\ \E t \in FaultyRepos \ {remote_head.tree} :
          remote_head' = [sha |-> remote_head.sha + 1, tree |-> t]
    /\ UNCHANGED <<last_remote_sha, prev_scan, poller>>
    /\ UNCHANGED <<gen_vars, scan_vars, out_vars, watch_vars>>

\* what an iteration of the loop did, when it did not scan
Skipped(outcome) ==
    /\ call' = [op |-> "poll", outcome |-> outcome]
    /\ UNCHANGED <<fs, repo_path, operations, scan_results, scans>>
    /\ UNCHANGED <<output_dir, prev_scan, poller>>

\* lines 161-172 after generate_for_operations ended as g: its exception
\* leaves the loop, which catches KeyboardInterrupt only
PollRegenerated(g, results, remote_sha) ==
    /\ output_dir' = g.output_dir
    /\ IF g.raised # ""
       THEN /\ call' = [op |-> "poll", outcome |-> "raised"]
            /\ poller' = "stopped"
            /\ UNCHANGED <<prev_scan, last_remote_sha>>
       ELSE /\ call' = [op |-> "poll", outcome |-> "processed"]
            /\ prev_scan' = SourceSnapshot(results)
            /\ last_remote_sha' = remote_sha
            /\ UNCHANGED poller

\* lines 153-172 after pull_repo succeeded, which makes the working tree the
\* remote's HEAD, and the scan of scan_for_changes(prev_scan) ended as r
PollScanned(r, remote_sha) ==
    /\ operations' = r.ops
    /\ repo_path' = r.path
    /\ scans' = scans + 1
    /\ IF r.raised # ""
       THEN /\ call' = [op |-> "poll", outcome |-> "raised"]
            /\ poller' = "stopped"
            /\ UNCHANGED <<scan_results, output_dir, prev_scan, last_remote_sha>>
       ELSE /\ scan_results' = "scanner.operations"
            /\ \E changed \in ChangedLists(DictPrev(prev_scan), r.ops) :
                 \E fails \in SUBSET {changed[i] : i \in DOMAIN changed} :
                    PollRegenerated(
                        generate_for_operations(changed, r.ops,
                            [raised |-> "", output_dir |-> output_dir], fails),
                        r.ops, remote_sha)

\* one iteration of the loop, lines 143-172; git_fails is the git command
\* that exits non-zero in it, if any
PollWith(git_fails) ==
    IF git_fails = "ls-remote"
    THEN Skipped("no_head") /\ UNCHANGED last_remote_sha
    ELSE IF remote_head.sha = last_remote_sha
    THEN Skipped("same") /\ UNCHANGED last_remote_sha
    ELSE IF git_fails = "pull"
    THEN Skipped("pull_failed") /\ last_remote_sha' = remote_head.sha
    ELSE /\ fs' = remote_head.tree
         /\ PollScanned(scan(operations, remote_head.tree, repo_path), remote_head.sha)

Poll ==
    /\ poller = "polling"
    /\ \E git_fails \in {"", "ls-remote", "pull"} : PollWith(git_fails)
    /\ UNCHANGED <<remote_head, generated_tests, gen_vars, watch_vars>>

NextPoll == WatchRemote \/ Push \/ Poll

SpecPoll == InitPoll /\ [][NextPoll]_vars

-----------------------------------------------------------------------------
(* Properties of the generator *)

KindCount(tests, k) == Len(SelectSeq(tests, LAMBDA t : t.kind = k))

UniqueArgNames(args) ==
    \A i, j \in 1..Len(args) : i # j => args[i].name # args[j].name

NumRequired(args) == Cardinality({i \in 1..Len(args) : args[i].required})

NumOptional(args) == Cardinality({i \in 1..Len(args) : ~args[i].required})

NumNumeric(args) == Cardinality({i \in 1..Len(args) : args[i].arg_type = "int"})

Titles(tests) == {tests[i].title : i \in 1..Len(tests)}

\* C1: for a model with uniquely named arguments, R required, O optional and
\* N numeric (type tag int) among all of them, generate emits exactly
\* 3 + O + R + 2 + R + 2N + R + 1 test cases, distinctly titled: smoke,
\* dry-run, timeout, one per optional argument, one missing-required per
\* required argument, unknown-operation, empty-operation, one empty-value per
\* required argument, two per numeric argument, one special-characters per
\* required argument, and help.
C1_TestCount ==
    (rendered # NotCalled /\ UniqueArgNames(operation_info.args)) =>
        LET R == NumRequired(operation_info.args)
            O == NumOptional(operation_info.args)
            N == NumNumeric(operation_info.args)
            tests == rendered.tests
        IN  /\ Len(tests) = 3 + O + R + 2 + R + 2 * N + R + 1
            /\ Cardinality(Titles(tests)) = Len(tests)
            /\ KindCount(tests, "smoke") = 1
            /\ KindCount(tests, "dry_run") = 1
            /\ KindCount(tests, "timeout") = 1
            /\ KindCount(tests, "optional_arg") = O
            /\ KindCount(tests, "missing_required") = R
            /\ KindCount(tests, "unknown_operation") = 1
            /\ KindCount(tests, "empty_operation") = 1
            /\ KindCount(tests, "empty_value") = R
            /\ KindCount(tests, "non_numeric") = N
            /\ KindCount(tests, "negative_value") = N
            /\ KindCount(tests, "special_chars") = R
            /\ KindCount(tests, "help") = 1

\* a rendered model with a required, an optional and a numeric argument
C1_Witness ==
    /\ rendered # NotCalled
    /\ UniqueArgNames(operation_info.args)
    /\ NumRequired(operation_info.args) >= 1
    /\ NumOptional(operation_info.args) >= 1
    /\ \E i \in 1..Len(operation_info.args) :
          operation_info.args[i].arg_type = "int" /\ ~operation_info.args[i].required

IsDeployExample(info) ==
    /\ info.name = deploy
    /\ Len(info.args) = 2
    /\ \E i \in 1..2 : info.args[i].name = target /\ info.args[i].required
    /\ \E i \in 1..2 : info.args[i].name = force /\ ~info.args[i].required
    /\ NumNumeric(info.args) = 0

DeployTitles ==
    {"deploy Smoke Test",
     "deploy Fails Without Required Arg target",
     "deploy With Optional Arg force"}

\* C2 as claimed: operation deploy with required argument target, optional
\* argument force and no numeric argument yields exactly 9 test cases, whose
\* titles include "deploy Smoke Test", "deploy Fails Without Required Arg
\* target" and "deploy With Optional Arg force".
C2_DeployYieldsNine ==
    (rendered # NotCalled /\ IsDeployExample(operation_info)) =>
        /\ Len(rendered.tests) = 9
        /\ DeployTitles \subseteq Titles(rendered.tests)

\* C2 amended: that model yields exactly 10 test cases (3 + 1 optional +
\* 1 missing-required + 2 + 1 empty-value + 0 numeric + 1 special-characters
\* + 1 help), whose titles include the three named.
C2_DeployYieldsTen ==
    (rendered # NotCalled /\ IsDeployExample(operation_info)) =>
        /\ Len(rendered.tests) = 10
        /\ DeployTitles \subseteq Titles(rendered.tests)

C2_Witness == rendered # NotCalled /\ IsDeployExample(operation_info)

\* what the claim lets the test cases depend on
Core(info) ==
    [name |-> info.name,
     args |-> [i \in 1..Len(info.args) |->
                 [name |-> info.args[i].name, required |-> info.args[i].required,
                  arg_type |-> info.args[i].arg_type, default |-> info.args[i].default]]]

NamesOf(args) == [i \in 1..Len(args) |-> args[i].name]

ArgsOfKind(tests, k) ==
    LET ts == SelectSeq(tests, LAMBDA t : t.kind = k)
    IN  [i \in 1..Len(ts) |-> ts[i].arg[1]]

InArgumentOrder(tests, args) ==
    /\ ArgsOfKind(tests, "optional_arg") = NamesOf(SelectSeq(args, IsOptional))
    /\ ArgsOfKind(tests, "missing_required") = NamesOf(SelectSeq(args, IsRequired))
    /\ ArgsOfKind(tests, "empty_value") = NamesOf(SelectSeq(args, IsRequired))
    /\ ArgsOfKind(tests, "non_numeric") = NamesOf(SelectSeq(args, IsInt))
    /\ ArgsOfKind(tests, "negative_value") = NamesOf(SelectSeq(args, IsInt))
    /\ ArgsOfKind(tests, "special_chars") = NamesOf(SelectSeq(args, IsRequired))

\* C4: two models that agree on the operation name and the ordered argument
\* list (name, required, type, default) yield the same sequence of test cases,
\* whatever their description, script_path, functions, env_vars, error
\* conditions, source text and argument descriptions; and the test cases keyed
\* by argument appear in argument order.
C4_DependsOnNameAndArgsOnly ==
    /\ (rendered # NotCalled /\ prev_rendered # NotCalled
        /\ Core(prev_info) = Core(operation_info))
          => rendered.tests = prev_rendered.tests
    /\ rendered # NotCalled => InArgumentOrder(rendered.tests, operation_info.args)

\* two renderings of models that agree on name and arguments and differ in
\* every other field, with two arguments of one class to order
C4_Witness ==
    /\ rendered # NotCalled
    /\ prev_rendered # NotCalled
    /\ Core(prev_info) = Core(operation_info)
    /\ prev_info.description # operation_info.description
    /\ prev_info.source_code # operation_info.source_code
    /\ NumRequired(operation_info.args) = 2
    /\ prev_info.args # operation_info.args

-----------------------------------------------------------------------------
(* Properties of the scanner and of change detection *)

Range(q) == {q[i] : i \in 1..Len(q)}

Returned == call.op # "none" /\ call.raised = ""

\* C5: for a previous mapping P and the mapping C that scan() returned,
\* scan_for_changes returns exactly the names of C that are not in P or whose
\* source_code differs from P's source text for them, each once; names only
\* in P are not returned; identical snapshots give the empty list; with P
\* empty or None every name of C is returned.
C5_ChangedNames ==
    (call.op = "scan_for_changes" /\ call.raised = "") =>
        LET P == call.previous
            C == operations
        IN  /\ Range(call.returned) =
                 {n \in Keys(C) :
                     \/ P.is_none
                     \/ n \notin Keys(P.d)
                     \/ Get(C, n).source_code # PrevSource(P.d, n)}
            /\ Cardinality(Range(call.returned)) = Len(call.returned)
            /\ Range(call.returned) \cap (Keys(P.d) \ Keys(C)) = {}
            /\ (~P.is_none /\ P.d = SourceSnapshot(C)) => call.returned = <<>>
            /\ (P.is_none \/ P.d = EmptyDict) => Range(call.returned) = Keys(C)

\* a call that reported an added and a modified operation, left an unchanged
\* one out, and whose previous mapping named an operation that is gone
C5_Witness ==
    /\ call.op = "scan_for_changes"
    /\ call.raised = ""
    /\ ~call.previous.is_none
    /\ \E n \in Range(call.returned) : n \notin Keys(call.previous.d)
    /\ \E n \in Range(call.returned) : n \in Keys(call.previous.d)
    /\ Keys(call.previous.d) \ Keys(operations) # {}

\* the cli.py the latest scan read, if any
Located == LocateCli(fs, repo_path)

LocatedTree == CliFile(fs.cli[<<Located.anchor, Located.rel>>])

\* the latest call was a scan that returned, of a cli.py that parses
ScannedCli == Returned /\ Located.found /\ LocatedTree.syntax_ok

\* the registry: the literal mapping last assigned, else no entries
RegistryItems ==
    IF LocatedTree.assigns # <<>> /\ LocatedTree.assigns[Len(LocatedTree.assigns)].node = "Dict"
    THEN SelectSeq(LocatedTree.assigns[Len(LocatedTree.assigns)].items,
                   LAMBDA it : IsConstant(it.key))
    ELSE <<>>

RegistryNames == {RegistryItems[i].key.value : i \in 1..Len(RegistryItems)}

\* the registry's value for an operation name (the last one given)
RegistryValue(n) ==
    RegistryItems[CHOOSE i \in 1..Len(RegistryItems) :
                     /\ RegistryItems[i].key.value = n
                     /\ \A j \in (i + 1)..Len(RegistryItems) : RegistryItems[j].key.value # n].value

\* the flags an operation's `args` lists declare, normalized, in order
DeclaredArgNames(n) ==
    IF RegistryValue(n).node # "Dict" THEN <<>>
    ELSE LET lists == SelectSeq(RegistryValue(n).items,
                          LAMBDA it : /\ IsConstant(it.key)
                                      /\ it.key.value = "args"
                                      /\ it.value.node = "List")
         IN  Flatten([i \in 1..Len(lists) |->
                 LET strs == SelectSeq(lists[i].value.elts, IsConstant)
                 IN  [j \in 1..Len(strs) |-> NormalizeFlag(strs[j].value)]])

\* the option-scan records of the run command with a given name, in order
OptionRecordsFor(name) ==
    SelectSeq(_parse_click_options(LocatedTree.decorators), LAMBDA c : c.name = name)

Last(q) == q[Len(q)]

\* C6: every registry-declared argument that has an option-scan record of the
\* same name carries that record's type, default and description (the last
\* such record's, when the option is declared more than once) and stays
\* required; an argument with no such record keeps the placeholder type
\* "string" and no default.
C6_MergePrecedence ==
    ScannedCli =>
        \A n \in RegistryNames :
            \A i \in 1..Len(Get(operations, n).args) :
                LET x == Get(operations, n).args[i]
                    recs == OptionRecordsFor(x.name)
                IN  /\ x.required
                    /\ IF recs # <<>>
                       THEN /\ x.arg_type = Last(recs).arg_type
                            /\ x.default = Last(recs).default
                            /\ x.description = Last(recs).description
                       ELSE /\ x.arg_type = "string"
                            /\ x.default = None

\* a scan that merged a record whose type and default differ from the
\* placeholder's into one argument and found no record for another
C6_Witness ==
    /\ ScannedCli
    /\ \E n \in RegistryNames :
         /\ \E i \in 1..Len(Get(operations, n).args) :
              LET x == Get(operations, n).args[i] IN
              /\ OptionRecordsFor(x.name) # <<>>
              /\ x.arg_type # "string"
              /\ x.default # None
         /\ \E i \in 1..Len(Get(operations, n).args) :
              OptionRecordsFor(Get(operations, n).args[i].name) = <<>>

\* C7: after the merge each operation's argument names, in order, are exactly
\* those its registry `args` list declares; an option record that matches no
\* registry argument is not added; every argument of every model that scan()
\* returns is required.
C7_RegistryDecidesArguments ==
    ScannedCli =>
        /\ \A n \in RegistryNames :
              NamesOf(Get(operations, n).args) = DeclaredArgNames(n)
        /\ \A k \in 1..Len(operations) :
              \A i \in 1..Len(operations[k].v.args) : operations[k].v.args[i].required

\* a scan of a cli.py with an option record that matches no argument of an
\* operation that has arguments
C7_Witness ==
    /\ ScannedCli
    /\ \E n \in RegistryNames :
         /\ Get(operations, n).args # <<>>
         /\ \E c \in Range(_parse_click_options(LocatedTree.decorators)) :
               c.name \notin Range(DeclaredArgNames(n))

\* C8 as claimed: any call to scan() that finds no cli.py, at the candidate
\* paths or by the directory walk, returns an empty mapping and raises
\* nothing.
C8_AbsentCliGivesEmptyMapping ==
    (call.op # "none" /\ ~Located.found) =>
        /\ call.raised = ""
        /\ operations = EmptyDict

CliIsBroken == Located.found /\ ~LocatedTree.syntax_ok

\* C9: a scan of a cli.py that has a syntax error raises SyntaxError from
\* _parse_cli, and that call adds nothing to and changes nothing in the
\* scanner's operations.
C9_SyntaxErrorAborts ==
    [][(scans' = scans + 1 /\ CliIsBroken) =>
          /\ call'.raised = "SyntaxError"
          /\ call'.at = "_parse_cli"
          /\ operations' = operations]_vars

\* a scan that was aborted by a syntax error in cli.py while the scanner held
\* operations of an earlier scan
C9_Witness ==
    /\ call.op # "none"
    /\ call.raised = "SyntaxError"
    /\ call.at = "_parse_cli"
    /\ CliIsBroken
    /\ operations # EmptyDict

\* the script of operation n, as scan() resolves it, exists and does not parse
ScriptUnparsable(n) ==
    LET path == Get(_parse_cli(fs, repo_path).ops, n).script_path
        sub == ScriptDir(fs, repo_path, path)
    IN  /\ PathKind(fs, repo_path, sub, path) = "file"
        /\ ~ScriptFile(fs.scripts[<<repo_path, sub, path>>]).syntax_ok

\* C10 as claimed: when a registered operation's script exists but does not
\* parse, scan() still returns, every operation of the registry is in the
\* result, and the affected operation's derived fields are empty.
C10_UnparsableScriptIsLocal ==
    (call.op # "none" /\ Located.found /\ LocatedTree.syntax_ok) =>
        \A n \in RegistryNames :
            ScriptUnparsable(n) =>
                /\ call.raised = ""
                /\ RegistryNames \subseteq Keys(operations)
                /\ n \in Keys(operations)
                /\ Get(operations, n).functions = <<>>
                /\ Get(operations, n).env_vars = <<>>
                /\ Get(operations, n).error_conditions = <<>>

\* what _parse_cli gives for the tree and repo_path the latest scan left
Extracted == _parse_cli(fs, repo_path)

\* the latest call scanned a cli.py that parses
ParsedCli == call.op # "none" /\ Located.found /\ LocatedTree.syntax_ok

\* the script of operation n, as scan() resolves it, is a file
ScriptIsFile(n) ==
    LET path == Get(Extracted.ops, n).script_path
    IN  PathKind(fs, repo_path, ScriptDir(fs, repo_path, path), path) = "file"

\* the fields _parse_operation_script fills are as the constructor left them
DerivedFieldsEmpty(op_info) ==
    /\ op_info.functions = <<>>
    /\ op_info.env_vars = <<>>
    /\ op_info.error_conditions = <<>>
    /\ op_info.source_code = ""

\* C11 as claimed: for every operation whose script_path resolves to no
\* script file, against the scan root or the service_console subdirectory
\* (the empty script_path of an entry without `script` included), scan()
\* raises nothing and the operation's functions, env_vars, error conditions
\* and source text are empty.  (Scans in which some script that does
\* resolve fails to parse are left out.)
C11_UnresolvedScriptIsEmpty ==
    (ParsedCli /\ Extracted.raised = "") =>
        \A n \in Keys(Extracted.ops) :
            (/\ ~ScriptIsFile(n)
             /\ \A m \in Keys(Extracted.ops) : ~ScriptUnparsable(m)) =>
                /\ call.raised = ""
                /\ n \in Keys(operations)
                /\ DerivedFieldsEmpty(Get(operations, n))

\* every pair of the registry literal, well-formed or not
RegistryPairs ==
    IF LocatedTree.assigns # <<>> /\ LocatedTree.assigns[Len(LocatedTree.assigns)].node = "Dict"
    THEN LocatedTree.assigns[Len(LocatedTree.assigns)].items
    ELSE <<>>

\* a pair whose key is a literal string and whose value is a literal mapping
WellFormedPair(it) ==
    /\ IsConstant(it.key)
    /\ it.key.py = "str"
    /\ it.value.node = "Dict"

\* the literal strings of the `args` lists of the last well-formed pair named n
LiteralArgNames(n) ==
    LET pairs == SelectSeq(RegistryPairs, LAMBDA it : WellFormedPair(it) /\ it.key.value = n)
        lists == SelectSeq(pairs[Len(pairs)].value.items,
                     LAMBDA it : /\ IsConstant(it.key)
                                 /\ it.key.value = "args"
                                 /\ it.value.node = "List")
    IN  Flatten([i \in 1..Len(lists) |->
            LET strs == SelectSeq(lists[i].value.elts,
                            LAMBDA e : IsConstant(e) /\ e.py = "str")
            IN  [j \in 1..Len(strs) |-> NormalizeFlag(strs[j].value)]])

\* C12 as claimed: extraction of a registry literal raises nothing, yields an
\* operation for exactly the pairs whose key is a literal string and whose
\* value is a literal mapping, and gives each of them an argument for
\* exactly the literal strings of its `args` list.
C12_MalformedEntriesAreSkipped ==
    (ParsedCli /\ RegistryPairs # <<>>) =>
        /\ Extracted.raised = ""
        /\ Keys(Extracted.ops) =
             {RegistryPairs[i].key.value :
                 i \in {j \in 1..Len(RegistryPairs) : WellFormedPair(RegistryPairs[j])}}
        /\ \A n \in Keys(Extracted.ops) :
             NamesOf(Get(Extracted.ops, n).args) = LiteralArgNames(n)

\* C13 as claimed: in every operation model that scan() returns the argument
\* names are pairwise distinct.
C13_ArgumentNamesDistinct ==
    Returned =>
        \A k \in 1..Len(operations) :
            \A i, j \in 1..Len(operations[k].v.args) :
                i # j => operations[k].v.args[i].name # operations[k].v.args[j].name

-----------------------------------------------------------------------------
(* Properties of the generated test cases *)

CategoryTags == {"smoke", "positive", "negative", "edge_case"}

\* the tags of every test case are the lowercased operation name, at least
\* one tag of `categories`, and nothing else
TagsDrawnFrom(categories) ==
    \A i \in 1..Len(rendered.tests) :
        LET tags == Range(rendered.tests[i].tags)
        IN  /\ Str(Lower(operation_info.name)) \in tags
            /\ tags \cap CategoryTags # {}
            /\ tags \subseteq categories \cup {Str(Lower(operation_info.name))}

RequiredOf(info) == SelectSeq(info.args, LAMBDA a : a.required)

\* C16: the i-th "Fails Without Required Arg" test is the one for the i-th
\* required argument a; it runs the operation with, for every required
\* argument named otherwise than a, in argument order, the argument's flag
\* followed by its default variable, and without a's flag; it asserts a
\* non-zero exit code and the substring "Error" on standard error.
C16_MissingRequiredInvocation ==
    rendered # NotCalled =>
        LET req == RequiredOf(operation_info)
            missing == SelectSeq(rendered.tests, LAMBDA t : t.kind = "missing_required")
        IN  /\ Len(missing) = Len(req)
            /\ \A i \in 1..Len(req) :
                 LET others == SelectSeq(req, LAMBDA r : r.name # req[i].name)
                 IN  /\ missing[i].title =
                           Str(operation_info.name) \o " Fails Without Required Arg "
                           \o Str(req[i].name)
                     /\ missing[i].invocation =
                           <<"Run Process", "${SERVICE_CONSOLE}", "run",
                             Str(operation_info.name)>>
                           \o Flatten([j \in 1..Len(others) |->
                                  <<"--" \o Str(Replace(others[j].name, "_", "-")),
                                    "${DEFAULT_" \o Str(Upper(others[j].name)) \o "}">>])
                     /\ ("--" \o Str(Replace(req[i].name, "_", "-")))
                           \notin Range(missing[i].invocation)
                     /\ missing[i].asserts =
                           <<<<"Should Not Be Equal As Integers", "${result.rc}", "0">>,
                             <<"Should Contain", "${result.stderr}", "Error">>>>

\* a rendered model with two required arguments of different names, the
\* second of which has an underscore in its name
C16_Witness ==
    /\ rendered # NotCalled
    /\ Len(RequiredOf(operation_info)) = 2
    /\ RequiredOf(operation_info)[1].name = target
    /\ RequiredOf(operation_info)[2].name = max_n

-----------------------------------------------------------------------------
(* Properties of the registry and of successive scans *)

\* the expression last assigned to AVAILABLE_OPERATIONS is a dict literal
RegistryIsLiteral ==
    /\ LocatedTree.assigns # <<>>
    /\ LocatedTree.assigns[Len(LocatedTree.assigns)].node = "Dict"

\* C18: a scan of a cli.py that parses and in which AVAILABLE_OPERATIONS is
\* never assigned, or is last assigned an expression that is not a dict
\* literal, raises nothing and adds or changes no operation; a scan that
\* returns after reading a dict literal has every constant key of the literal
\* among its operations.
C18_RegistryOnlyFromLiteral ==
    [][(scans' = scans + 1 /\ Located.found /\ LocatedTree.syntax_ok) =>
          /\ ~RegistryIsLiteral => (call'.raised = "" /\ operations' = operations)
          /\ (RegistryIsLiteral /\ call'.raised = "") =>
                RegistryNames \subseteq Keys(operations')]_vars

\* a returned first scan of a cli.py that assigns a dict literal and then a
\* call to AVAILABLE_OPERATIONS
C18_Witness ==
    /\ call.op # "none"
    /\ call.raised = ""
    /\ scans = 1
    /\ Located.found
    /\ LocatedTree.syntax_ok
    /\ Len(LocatedTree.assigns) = 2
    /\ ~RegistryIsLiteral
    /\ operations = EmptyDict

\* the names the registry gives at the latest scan
CurrentRegistryNames == IF Located.found THEN RegistryNames ELSE {}

\* C19 as claimed: the mapping the latest scan returned contains exactly the
\* operation names of the registry at that scan.
C19_LatestScanMatchesRegistry ==
    Returned => Keys(operations) = CurrentRegistryNames

\* C20 as claimed: a later scan leaves the mapping that an earlier scan
\* returned, which the agent holds as scan_results, and every model in it
\* unchanged.
C20_EarlierResultUnchanged ==
    [][(scan_results = "scanner.operations" /\ scans' = scans + 1) =>
          operations' = operations]_vars

-----------------------------------------------------------------------------
(* Properties of batch generation *)

-----------------------------------------------------------------------------
(* Properties of local watch mode *)

\* the operations a scan of the tree as it is now describes
FreshScan == scan(EmptyDict, fs, repo_path).ops

\* the test file of operation n is one a generator writes from op_info
ReflectedIn(dir, n, op_info) ==
    /\ Filename(n) \in Keys(dir)
    /\ IF Get(dir, Filename(n)).by = "llm"
       THEN Get(dir, Filename(n)) = LLMContent(op_info)
       ELSE Get(dir, Filename(n)) = TemplateContent(op_info)

FilesUpToDate ==
    \A n \in Keys(FreshScan) : ReflectedIn(output_dir, n, Get(FreshScan, n))

\* C17: in local watch mode every change of a .py file is eventually
\* reflected in the regenerated tests: whenever the test files are behind
\* the tree, they catch up, with the events already signalled
C17_ChangeEventuallyRegenerated ==
    (Watching /\ ~FilesUpToDate) ~> FilesUpToDate

-----------------------------------------------------------------------------
(* Properties of scan_for_changes followed by generate_for_operations *)

\* the mapping the agent holds as self.scan_results
AgentScanResults == IF scan_results = "initial" THEN EmptyDict ELSE operations

\* the names generate_for_operations generates a test for: those it finds in
\* self.scan_results
GeneratedFor(operation_names) ==
    {n \in Range(operation_names) : n \in Keys(AgentScanResults)}

\* C21 as claimed: when scan_for_changes returns, for any previous mapping
\* (None included) and whether or not run() came first, self.scan_results is
\* the scan just performed, and generate_for_operations on the returned list
\* generates a test for every name of the list.
C21_ScanResultsHoldLatestScan ==
    (call.op = "scan_for_changes" /\ call.raised = "") =>
        /\ AgentScanResults = operations
        /\ GeneratedFor(call.returned) = Range(call.returned)

-----------------------------------------------------------------------------
(* Properties of the files of a batch *)

\* the files of output_dir that hold a test
TestFiles == {f \in Keys(output_dir) : Get(output_dir, f).by \in {"llm", "template"}}

\* the latest call was a run() that generated the whole batch
BatchGenerated == call.op = "run" /\ call.raised = "" /\ call.scanned

\* no element of the list occurs twice
NoRepeats(q) == \A i, j \in 1..Len(q) : q[i] = q[j] => i = j

\* C22 as claimed: after batch generation there are as many test files as
\* scanned operations, the file of each operation holds the test generated
\* for that operation, and test_files of the scan metadata repeats no entry.
C22_DistinctNamesDistinctFiles ==
    BatchGenerated =>
        /\ Cardinality(TestFiles) = Cardinality(Keys(operations))
        /\ \A n \in Keys(operations) :
              Get(output_dir, Filename(n)) = Get(generated_tests, n)
        /\ NoRepeats(Get(output_dir, "scan_metadata.json").test_files)

-----------------------------------------------------------------------------
(* Properties of remote polling mode *)

\* C23 as claimed: the polling loop records a remote HEAD SHA as last seen
\* only after the pull, the scan-and-diff and the regeneration for it; so
\* while the SHA recorded is the remote's HEAD, the working tree is that
\* commit's tree and prev_scan is the snapshot of its scan.
C23_RecordedShaIsProcessed ==
    (poller = "polling" /\ last_remote_sha = remote_head.sha) =>
        /\ fs = remote_head.tree
        /\ prev_scan = SourceSnapshot(operations)

\* C25 as claimed: a failure while processing one change signal never stops
\* the watcher (the local handler has no way to stop; the polling loop stays
\* in its loop), so later signals are still processed.
C25_FailureNeverStopsWatcher == poller # "stopped"

-----------------------------------------------------------------------------
(* Properties of the local handler's snapshot *)

\* the latest handled event was a pass that ended in the handler's except
\* clause
PassFailed == call.op = "_handle_change" /\ call.outcome = "error"

\* the names a pass over the tree of the latest scan reports against the
\* stored snapshot
StillChanged ==
    AddedNames(HandlerPrev(_previous_scan).d, operations)
        \cup ModifiedNames(HandlerPrev(_previous_scan).d, operations)

\* C24: the handler replaces its stored snapshot only in a pass in which
\* scan_for_changes and generate_for_operations both returned; after a pass
\* in which the regeneration raised, the operations it reported as changed
\* are still what the snapshot differs in from the scanned tree, which is
\* what the next pass reports.
C24_SnapshotKeptOnFailure ==
    /\ [][(Watching /\ _previous_scan' # _previous_scan)
             => (call'.op = "_handle_change" /\ call'.outcome = "processed")]_vars
    /\ []((PassFailed /\ call.scanned) => Range(call.changed) = StillChanged)

\* a pass whose regeneration raised after scan_for_changes had reported
\* changed operations, leaving a snapshot that is not the latest scan
C24_Witness ==
    /\ PassFailed
    /\ call.scanned
    /\ call.changed # <<>>
    /\ _previous_scan # Some(operations)

-----------------------------------------------------------------------------
(* Properties of the flags of an invocation *)

\* the cells of an invocation that are flags, in order
FlagsOf(invocation) ==
    SelectSeq(invocation,
              LAMBDA c : c \in {FlagOf(n) : n \in ArgNames} \cup {"--dry-run", "--timeout"})

\* C26 as claimed: for arguments of distinct names, no invocation of the
\* generated suite supplies a flag more than once; so the non-numeric and
\* the negative-value test of a numeric argument supply it once, with the bad
\* value, also when it is required.
C26_NoFlagSuppliedTwice ==
    (rendered # NotCalled /\ UniqueArgNames(operation_info.args)) =>
        \A i \in 1..Len(rendered.tests) : NoRepeats(FlagsOf(rendered.tests[i].invocation))

====
